---- MODULE Spec2Model ----
(***************************************************************************)
(* Multi-signal estimation engine of NETS-AI:                              *)
(*   src/src/models/bayesian_employee_estimator.py  (EmployeeEstimator)    *)
(*   src/src/models/survival_detector.py            (SurvivalDetector)     *)
(*                                                                         *)
(* Numbers.  Python floats are modelled as fixed-point thousandths         *)
(* (12.0 employees = 12000); every product or quotient is rounded to the   *)
(* nearest thousandth.  Review and posting counts are whole numbers.       *)
(* An optional scalar is a tagged cell: None (the argument default), NaN   *)
(* (pandas' missing marker), a number, a boolean, a parseable date or an   *)
(* unparseable string.                                                     *)
(***************************************************************************)
EXTENDS Integers, Sequences, FiniteSets

VARIABLES naics_baselines, today, req, last, prev

vars == <<naics_baselines, today, req, last, prev>>

(***************************************************************************)
(* Bounds of the model                                                     *)
(***************************************************************************)
MaxTicks == 1
MaxBatch == 2

(***************************************************************************)
(* Optional scalars                                                        *)
(***************************************************************************)
None == [k |-> "None", v |-> 0]
NaN == [k |-> "NaN", v |-> 0]
Num(x) == [k |-> "num", v |-> x]
Bool(b) == [k |-> "bool", v |-> IF b THEN 1 ELSE 0]
Date(d) == [k |-> "date", v |-> d]
BadStr == [k |-> "str", v |-> 0]

\* x is None
IsNone(x) == x.k = "None"
\* pd.isna(x) / np.isnan(x)
IsNa(x) == x.k \in {"None", "NaN"}
\* bool(x): None and zero are false, NaN is true
Truthy(x) == x.k = "NaN" \/ (x.k \in {"num", "bool"} /\ x.v # 0)
\* x < c, x > c, x >= c on a number or NaN (every comparison with NaN is False)
Lt(x, c) == x.k = "num" /\ x.v < c
Gt(x, c) == x.k = "num" /\ x.v > c
Ge(x, c) == x.k = "num" /\ x.v >= c

Max(a, b) == IF b > a THEN b ELSE a
Min(a, b) == IF b < a THEN b ELSE a

\* n / d rounded to the nearest integer (d > 0)
RDiv(n, d) == (2 * n + d) \div (2 * d)
\* x * f for a factor f in thousandths
Scale(x, f) == RDiv(x * f, 1000)
\* np.clip(x, lo, hi)
Clip(x, lo, hi) == IF x < lo THEN lo ELSE IF x > hi THEN hi ELSE x
\* round(x, 1): nearest tenth, ties to the even tenth (at an exact tie the
\* float result follows the rounding error of the operand)
Round1(x) ==
    LET q == x \div 100
        r == x % 100
    IN  IF r < 50 THEN 100 * q
        ELSE IF r > 50 THEN 100 * (q + 1)
        ELSE IF q % 2 = 0 THEN 100 * q ELSE 100 * (q + 1)

\* 1000 * ln(n) for n = 1 .. 400
LnTable ==
   << 0, 693, 1099, 1386, 1609, 1792, 1946, 2079, 2197, 2303, 2398, 2485, 2565, 2639, 2708, 2773, 2833, 2890, 2944, 2996,
      3045, 3091, 3135, 3178, 3219, 3258, 3296, 3332, 3367, 3401, 3434, 3466, 3497, 3526, 3555, 3584, 3611, 3638, 3664, 3689,
      3714, 3738, 3761, 3784, 3807, 3829, 3850, 3871, 3892, 3912, 3932, 3951, 3970, 3989, 4007, 4025, 4043, 4060, 4078, 4094,
      4111, 4127, 4143, 4159, 4174, 4190, 4205, 4220, 4234, 4248, 4263, 4277, 4290, 4304, 4317, 4331, 4344, 4357, 4369, 4382,
      4394, 4407, 4419, 4431, 4443, 4454, 4466, 4477, 4489, 4500, 4511, 4522, 4533, 4543, 4554, 4564, 4575, 4585, 4595, 4605,
      4615, 4625, 4635, 4644, 4654, 4663, 4673, 4682, 4691, 4700, 4710, 4718, 4727, 4736, 4745, 4754, 4762, 4771, 4779, 4787,
      4796, 4804, 4812, 4820, 4828, 4836, 4844, 4852, 4860, 4868, 4875, 4883, 4890, 4898, 4905, 4913, 4920, 4927, 4934, 4942,
      4949, 4956, 4963, 4970, 4977, 4984, 4990, 4997, 5004, 5011, 5017, 5024, 5030, 5037, 5043, 5050, 5056, 5063, 5069, 5075,
      5081, 5088, 5094, 5100, 5106, 5112, 5118, 5124, 5130, 5136, 5142, 5147, 5153, 5159, 5165, 5170, 5176, 5182, 5187, 5193,
      5198, 5204, 5209, 5215, 5220, 5226, 5231, 5236, 5242, 5247, 5252, 5257, 5263, 5268, 5273, 5278, 5283, 5288, 5293, 5298,
      5303, 5308, 5313, 5318, 5323, 5328, 5333, 5338, 5342, 5347, 5352, 5357, 5361, 5366, 5371, 5375, 5380, 5384, 5389, 5394,
      5398, 5403, 5407, 5412, 5416, 5421, 5425, 5429, 5434, 5438, 5442, 5447, 5451, 5455, 5460, 5464, 5468, 5472, 5476, 5481,
      5485, 5489, 5493, 5497, 5501, 5505, 5509, 5513, 5517, 5521, 5525, 5529, 5533, 5537, 5541, 5545, 5549, 5553, 5557, 5561,
      5565, 5568, 5572, 5576, 5580, 5583, 5587, 5591, 5595, 5598, 5602, 5606, 5609, 5613, 5617, 5620, 5624, 5628, 5631, 5635,
      5638, 5642, 5645, 5649, 5652, 5656, 5659, 5663, 5666, 5670, 5673, 5677, 5680, 5684, 5687, 5690, 5694, 5697, 5700, 5704,
      5707, 5710, 5714, 5717, 5720, 5724, 5727, 5730, 5733, 5737, 5740, 5743, 5746, 5749, 5753, 5756, 5759, 5762, 5765, 5768,
      5771, 5775, 5778, 5781, 5784, 5787, 5790, 5793, 5796, 5799, 5802, 5805, 5808, 5811, 5814, 5817, 5820, 5823, 5826, 5829,
      5832, 5835, 5838, 5841, 5844, 5846, 5849, 5852, 5855, 5858, 5861, 5864, 5866, 5869, 5872, 5875, 5878, 5881, 5883, 5886,
      5889, 5892, 5894, 5897, 5900, 5903, 5905, 5908, 5911, 5914, 5916, 5919, 5922, 5924, 5927, 5930, 5932, 5935, 5938, 5940,
      5943, 5945, 5948, 5951, 5953, 5956, 5958, 5961, 5964, 5966, 5969, 5971, 5974, 5976, 5979, 5981, 5984, 5986, 5989, 5991 >>
LnMilli(n) == LnTable[n]

RECURSIVE SeqSum(_)
SeqSum(s) == IF s = <<>> THEN 0 ELSE Head(s) + SeqSum(Tail(s))
RECURSIVE SeqMin(_)
SeqMin(s) == IF Len(s) = 1 THEN s[1] ELSE Min(s[1], SeqMin(Tail(s)))
RECURSIVE SeqMax(_)
SeqMax(s) == IF Len(s) = 1 THEN s[1] ELSE Max(s[1], SeqMax(Tail(s)))
Range(s) == {s[i] : i \in 1..Len(s)}

(***************************************************************************)
(* Baseline table: config.EMPLOYEE_ESTIMATION_BASELINES                    *)
(***************************************************************************)
EMPLOYEE_ESTIMATION_BASELINES ==
    [c \in {"722513", "446110"} |->
        IF c = "722513"
        THEN [employees_per_sqm |-> 25, avg_reviews_per_month |-> 15000,
              avg_employees |-> 12000, min_employees |-> 4000,
              max_employees |-> 50000]
        ELSE [employees_per_sqm |-> 20, avg_reviews_per_month |-> 8000,
              avg_employees |-> 10000, min_employees |-> 3000,
              max_employees |-> 35000]]

\* a table handed to EmployeeEstimator(naics_codes) with one category:
\* typical count 12, range [3, 50], typical review velocity 20 per month
ScenarioBaselines ==
    [c \in {"coffee"} |->
        [employees_per_sqm |-> 25, avg_reviews_per_month |-> 20000,
         avg_employees |-> 12000, min_employees |-> 3000,
         max_employees |-> 50000]]

(***************************************************************************)
(* EmployeeEstimator: per-signal estimators                                *)
(***************************************************************************)
NoOpinion == [point |-> None, lo |-> 0, hi |-> 0]

estimate_from_linkedin(linkedin_headcount) ==
    IF IsNa(linkedin_headcount) \/ linkedin_headcount.v <= 0 THEN NoOpinion
    ELSE LET point == linkedin_headcount.v
         IN  [point |-> Num(point),
              lo |-> Max(1000, Scale(point, 900)),
              hi |-> Scale(point, 1100)]

\* max(0.15, 2 / np.log(review_total + 1)); max() keeps 0.15 against NaN
confidence_margin(review_count_3m, review_count_6_12m) ==
    IF review_count_3m.k = "NaN" \/ review_count_6_12m.k = "NaN" THEN 150
    ELSE Max(150, RDiv(2 * 1000 * 1000,
                       LnMilli(review_count_3m.v + review_count_6_12m.v + 1)))

\* variant: the intensity is taken from the older window (6 months) instead
\* of the recent one
estimate_from_review_velocity_older(B, review_count_3m, review_count_6_12m, naics_code) ==
    IF naics_code \notin DOMAIN B THEN NoOpinion
    ELSE IF Lt(review_count_3m, 3) \/ Lt(review_count_6_12m, 3) THEN NoOpinion
    ELSE LET baseline == B[naics_code]
             avg_rpm == baseline.avg_reviews_per_month
             margin == confidence_margin(review_count_3m, review_count_6_12m)
             intensity_ratio ==
                 IF review_count_6_12m.k = "NaN" THEN 1000
                 ELSE RDiv(review_count_6_12m.v * 1000 * 1000, 6 * avg_rpm)
             point == Clip(Scale(baseline.avg_employees, intensity_ratio),
                           baseline.min_employees, baseline.max_employees)
         IN  [point |-> Num(point),
              lo |-> Max(baseline.min_employees, Scale(point, 1000 - margin)),
              hi |-> Min(baseline.max_employees, Scale(point, 1000 + margin))]

estimate_from_review_velocity(B, review_count_3m, review_count_6_12m, naics_code) ==
    IF naics_code \notin DOMAIN B THEN NoOpinion
    ELSE IF Lt(review_count_3m, 3) \/ Lt(review_count_6_12m, 3) THEN NoOpinion
    ELSE LET baseline == B[naics_code]
             avg_rpm == baseline.avg_reviews_per_month
             margin == confidence_margin(review_count_3m, review_count_6_12m)
         IN  IF review_count_3m.k = "NaN"
             THEN \* NaN propagates into the point; max()/min() keep the bounds
                  [point |-> NaN, lo |-> baseline.min_employees,
                   hi |-> baseline.max_employees]
             ELSE LET intensity_ratio ==
                          IF avg_rpm > 0
                          THEN RDiv(review_count_3m.v * 1000 * 1000, 3 * avg_rpm)
                          ELSE 1000
                      point == Clip(Scale(baseline.avg_employees, intensity_ratio),
                                    baseline.min_employees, baseline.max_employees)
                  IN  [point |-> Num(point),
                       lo |-> Max(baseline.min_employees, Scale(point, 1000 - margin)),
                       hi |-> Min(baseline.max_employees, Scale(point, 1000 + margin))]

estimate_from_building_area(B, area_sqm, naics_code) ==
    IF IsNa(area_sqm) \/ area_sqm.v <= 0 THEN NoOpinion
    ELSE IF naics_code \notin DOMAIN B THEN NoOpinion
    ELSE LET baseline == B[naics_code]
             point == Clip(Scale(area_sqm.v, baseline.employees_per_sqm),
                           baseline.min_employees, baseline.max_employees)
         IN  [point |-> Num(point),
              lo |-> Max(baseline.min_employees, Scale(point, 750)),
              hi |-> Min(baseline.max_employees, Scale(point, 1250))]

\* hiring_intensity = postings_recent_6m / max(1, postings_historical_max),
\* compared exactly as a fraction; max(1, NaN) is 1
hiring_multiplier(postings_recent_6m, postings_historical_max) ==
    LET historical_max == IF postings_historical_max.k = "NaN" THEN 1
                          ELSE Max(1, postings_historical_max.v)
    IN  IF postings_recent_6m.k = "NaN" THEN 900
        ELSE IF 10 * postings_recent_6m.v > 7 * historical_max THEN 1200
        ELSE IF 10 * postings_recent_6m.v > 2 * historical_max THEN 1000
        ELSE 900

estimate_from_job_postings(B, postings_recent_6m, postings_historical_max, naics_code) ==
    IF naics_code \notin DOMAIN B THEN NoOpinion
    ELSE IF Lt(postings_recent_6m, 1) /\ Lt(postings_historical_max, 2) THEN NoOpinion
    ELSE LET baseline == B[naics_code]
             multiplier == hiring_multiplier(postings_recent_6m, postings_historical_max)
             point == Clip(Scale(baseline.avg_employees, multiplier),
                           baseline.min_employees, baseline.max_employees)
         IN  [point |-> Num(point),
              lo |-> Max(baseline.min_employees, Scale(point, 700)),
              hi |-> Min(baseline.max_employees, Scale(point, 1300))]

(***************************************************************************)
(* EmployeeEstimator: ensemble, confidence, estimate                       *)
(***************************************************************************)
\* default weights of ensemble_estimate, in hundredths; weights.get(k, 0.1)
signal_weight(name) ==
    CASE name = "linkedin" -> 50
      [] name = "review_velocity" -> 30
      [] name = "building_area" -> 15
      [] name = "job_postings" -> 5
      [] OTHER -> 10

\* variant: the first entry of the dict is taken, whatever its weight
dominant_signal_first_entry(estimates) ==
    estimates[1].name

\* max(available_weights, key=available_weights.get): first largest in dict order
dominant_signal(estimates) ==
    LET i == CHOOSE i \in 1..Len(estimates) :
                 /\ \A j \in 1..Len(estimates) :
                        signal_weight(estimates[j].name) <= signal_weight(estimates[i].name)
                 /\ \A j \in 1..(i - 1) :
                        signal_weight(estimates[j].name) < signal_weight(estimates[i].name)
    IN  estimates[i].name

\* variant: the weights of the table are used as they are, without
\* renormalising over the signals present
available_weights_of_table(valid_estimates) ==
    [i \in 1..Len(valid_estimates) |->
        [num |-> signal_weight(valid_estimates[i].name), den |-> 100]]

\* available_weights after normalisation: weight / weight_sum, kept as a fraction
available_weights(valid_estimates) ==
    LET weight_sum == SeqSum([i \in 1..Len(valid_estimates) |->
                                 signal_weight(valid_estimates[i].name)])
    IN  [i \in 1..Len(valid_estimates) |->
            [num |-> signal_weight(valid_estimates[i].name), den |-> weight_sum]]

\* np.average(a, weights): sum(a * weights) / sum(weights), for weights that are
\* fractions over one denominator
np_average(a, weights) ==
    RDiv(SeqSum([i \in 1..Len(a) |-> a[i] * weights[i].num]),
         SeqSum([i \in 1..Len(a) |-> weights[i].num]))

\* np.average(points, weights = signal_weights); NaN if a point is NaN
ensemble_point(valid_estimates) ==
    IF \E i \in 1..Len(valid_estimates) : valid_estimates[i].point.k = "NaN" THEN NaN
    ELSE Num(np_average([i \in 1..Len(valid_estimates) |-> valid_estimates[i].point.v],
                        available_weights(valid_estimates)))

\* variant: the bounds are averaged with the weights, like the point
ensemble_estimate_weighted_bounds(estimates) ==
    LET valid_estimates == SelectSeq(estimates, LAMBDA e : ~IsNone(e.point))
        n == Len(valid_estimates)
    IN  IF valid_estimates = <<>>
        THEN [point |-> None, lo |-> None, hi |-> None, dominant |-> "none"]
        ELSE [point |-> ensemble_point(valid_estimates),
              lo |-> Num(np_average([i \in 1..n |-> valid_estimates[i].lo],
                                    available_weights(valid_estimates))),
              hi |-> Num(np_average([i \in 1..n |-> valid_estimates[i].hi],
                                    available_weights(valid_estimates))),
              dominant |-> dominant_signal(valid_estimates)]

ensemble_estimate(estimates) ==
    LET valid_estimates == SelectSeq(estimates, LAMBDA e : ~IsNone(e.point))
        n == Len(valid_estimates)
    IN  IF valid_estimates = <<>>
        THEN [point |-> None, lo |-> None, hi |-> None, dominant |-> "none"]
        ELSE [point |-> ensemble_point(valid_estimates),
              lo |-> Num(SeqMin([i \in 1..n |-> valid_estimates[i].lo])),
              hi |-> Num(SeqMax([i \in 1..n |-> valid_estimates[i].hi])),
              dominant |-> dominant_signal(valid_estimates)]

\* variant: the signal count is looked at before the LinkedIn rule
determine_confidence_emp_count_first(estimates) ==
    LET signal_count == Len(estimates)
        has_linkedin == \E i \in 1..Len(estimates) : estimates[i].name = "linkedin"
    IN  IF signal_count >= 3 THEN "high"
        ELSE IF signal_count = 2 THEN "medium"
        ELSE IF has_linkedin THEN "high"
        ELSE IF signal_count >= 1 THEN "medium"
        ELSE "low"

\* variant: a pair of signals counts only when the reviews are one of them
determine_confidence_emp_pair_rule(estimates) ==
    LET signal_count == Len(estimates)
        has_linkedin == \E i \in 1..Len(estimates) : estimates[i].name = "linkedin"
        has_reviews == \E i \in 1..Len(estimates) : estimates[i].name = "review_velocity"
    IN  IF has_linkedin THEN "high"
        ELSE IF signal_count >= 3 THEN "high"
        ELSE IF signal_count = 2 /\ has_reviews THEN "medium"
        ELSE IF signal_count = 1 THEN "medium"
        ELSE "low"

determine_confidence_emp(estimates) ==
    LET signal_count == Len(estimates)
        has_linkedin == \E i \in 1..Len(estimates) : estimates[i].name = "linkedin"
        has_reviews == \E i \in 1..Len(estimates) : estimates[i].name = "review_velocity"
    IN  IF has_linkedin THEN "high"
        ELSE IF signal_count >= 3 THEN "high"
        ELSE IF signal_count = 2 /\ has_reviews THEN "medium"
        ELSE IF signal_count >= 1 THEN "medium"
        ELSE "low"

\* estimates[name] = (point, lower, upper) when the estimator ran and `if point:`
Entry(name, called, e) ==
    IF called /\ Truthy(e.point)
    THEN << [name |-> name, point |-> e.point, lo |-> e.lo, hi |-> e.hi] >>
    ELSE << >>

collect_estimates(B, a) ==
    Entry("linkedin", Truthy(a.linkedin_headcount),
          estimate_from_linkedin(a.linkedin_headcount))
    \o Entry("review_velocity",
             Truthy(a.review_count_3m) /\ Truthy(a.review_count_6_12m),
             estimate_from_review_velocity(B, a.review_count_3m,
                                           a.review_count_6_12m, a.naics_code))
    \o Entry("building_area", Truthy(a.building_area_sqm),
             estimate_from_building_area(B, a.building_area_sqm, a.naics_code))
    \o Entry("job_postings",
             ~IsNone(a.job_postings_6m) /\ ~IsNone(a.job_postings_peak),
             estimate_from_job_postings(B, a.job_postings_6m,
                                        a.job_postings_peak, a.naics_code))

estimation_method(estimates) ==
    IF \E i \in 1..Len(estimates) : estimates[i].name = "linkedin" THEN "linkedin"
    ELSE IF Len(estimates) >= 2 THEN "xgboost"
    ELSE "rule_based"

\* variant: the fallback ignores the category's entry
fallback_estimate_defaults(B, naics_code) ==
    [point |-> Num(10000), lo |-> Num(3000), hi |-> Num(30000), dominant |-> "baseline"]

\* baseline.get(...) fallback for an empty estimates dict
fallback_estimate(B, naics_code) ==
    IF naics_code \in DOMAIN B
    THEN [point |-> Num(B[naics_code].avg_employees),
          lo |-> Num(B[naics_code].min_employees),
          hi |-> Num(B[naics_code].max_employees), dominant |-> "baseline"]
    ELSE [point |-> Num(10000), lo |-> Num(3000), hi |-> Num(30000),
          dominant |-> "baseline"]

\* round(x, 1) if x else None
RoundOut(x) ==
    IF ~Truthy(x) THEN None
    ELSE IF x.k = "NaN" THEN NaN
    ELSE Num(Round1(x.v))

estimate(B, a) ==
    LET estimates == collect_estimates(B, a)
        comb == IF estimates = <<>> THEN fallback_estimate(B, a.naics_code)
                ELSE ensemble_estimate(estimates)
    IN  [raised |-> "no",
         point_estimate |-> RoundOut(comb.point),
         ci_lower |-> RoundOut(comb.lo),
         ci_upper |-> RoundOut(comb.hi),
         confidence_level |-> determine_confidence_emp(estimates),
         estimation_method |-> estimation_method(estimates),
         primary_signal |-> comb.dominant,
         signals_used |-> [i \in 1..Len(estimates) |-> estimates[i].name],
         naics_code |-> a.naics_code]

(***************************************************************************)
(* SurvivalDetector                                                        *)
(***************************************************************************)
\* None when no rate; otherwise the rate in thousandths, or NaN
calculate_review_decay_rate(review_count_3m, review_count_6_12m) ==
    IF ~Truthy(review_count_3m) \/ ~Truthy(review_count_6_12m) THEN None
    ELSE IF Lt(review_count_6_12m, 2) THEN None
    ELSE IF Lt(review_count_6_12m, 1) THEN None   \* historical_monthly < 0.1
    ELSE IF review_count_3m.k = "NaN" \/ review_count_6_12m.k = "NaN" THEN NaN
    ELSE Num(RDiv(2 * 1000 * review_count_3m.v, review_count_6_12m.v))

\* days since the review (None when absent or unparseable), read off the clock
evaluate_review_recency(now, last_review_date) ==
    IF IsNa(last_review_date) THEN None
    ELSE IF last_review_date.k # "date" THEN None
    ELSE Num(now - last_review_date.v)

\* (ratio defined?, has_activity); the ratio itself is compared as a fraction
job_peak(postings_peak_historical) ==
    IF postings_peak_historical.k = "NaN" THEN 1
    ELSE Max(1, postings_peak_historical.v)

has_activity(postings_recent_6m, postings_peak_historical) ==
    /\ ~IsNone(postings_recent_6m) /\ ~IsNone(postings_peak_historical)
    /\ Ge(postings_recent_6m, 1)
    /\ 10 * postings_recent_6m.v >= 2 * job_peak(postings_peak_historical)

\* activity_ratio > 0.6; the ratio is 0.5 when a posting count is None
ratio_above_06(postings_recent_6m, postings_peak_historical) ==
    IF IsNone(postings_recent_6m) \/ IsNone(postings_peak_historical) THEN FALSE
    ELSE /\ postings_recent_6m.k = "num"
         /\ 10 * postings_recent_6m.v > 6 * job_peak(postings_peak_historical)

\* variant: the vote is taken among the cues that are defined (more than half
\* of them positive)
evaluate_street_view_among_defined(facade_visible, signage_visible, lighting_indicators) ==
    LET indicators == <<facade_visible, signage_visible, lighting_indicators>>
        non_null == SelectSeq(indicators, LAMBDA c : ~IsNone(c))
    IN  IF non_null = <<>> THEN None
        ELSE IF \E i \in 1..Len(non_null) : non_null[i].k = "NaN" THEN Bool(FALSE)
        ELSE Bool(2 * SeqSum([i \in 1..Len(non_null) |-> non_null[i].v]) > Len(non_null))

\* None, or Bool(at least two of the non-None cues positive); sum() over a NaN
\* cue is NaN
evaluate_street_view(facade_visible, signage_visible, lighting_indicators) ==
    LET indicators == <<facade_visible, signage_visible, lighting_indicators>>
        non_null == SelectSeq(indicators, LAMBDA c : ~IsNone(c))
    IN  IF non_null = <<>> THEN None
        ELSE IF \E i \in 1..Len(non_null) : non_null[i].k = "NaN" THEN Bool(FALSE)
        ELSE Bool(SeqSum([i \in 1..Len(non_null) |-> non_null[i].v]) >= 2)

Factor(name, score, weight, kind, text, arg) ==
    << [name |-> name, score |-> score, weight |-> weight,
        kind |-> kind, text |-> text, arg |-> arg] >>

\* variant: the tier bounds are exclusive (< 30, < 90, < 180)
recency_factor_exclusive(days_since) ==
    IF IsNone(days_since) THEN << >>
    ELSE IF days_since.v < 30
         THEN Factor("review_recency", 1000, 35, "protective", "Recent review", days_since)
    ELSE IF days_since.v < 90
         THEN Factor("review_recency", 750, 35, "protective", "Moderate recency", days_since)
    ELSE IF days_since.v < 180
         THEN Factor("review_recency", 400, 35, "risk", "Declining activity", days_since)
    ELSE Factor("review_recency", 100, 35, "risk", "No recent activity", days_since)

\* variant: beyond 180 days the score goes back to the neutral 0.5
recency_factor_neutral_when_stale(days_since) ==
    IF IsNone(days_since) THEN << >>
    ELSE IF days_since.v <= 30
         THEN Factor("review_recency", 1000, 35, "protective", "Recent review", days_since)
    ELSE IF days_since.v <= 90
         THEN Factor("review_recency", 750, 35, "protective", "Moderate recency", days_since)
    ELSE IF days_since.v <= 180
         THEN Factor("review_recency", 400, 35, "risk", "Declining activity", days_since)
    ELSE Factor("review_recency", 500, 35, "risk", "No recent activity", days_since)

recency_factor(days_since) ==
    IF IsNone(days_since) THEN << >>
    ELSE IF days_since.v <= 30
         THEN Factor("review_recency", 1000, 35, "protective", "Recent review", days_since)
    ELSE IF days_since.v <= 90
         THEN Factor("review_recency", 750, 35, "protective", "Moderate recency", days_since)
    ELSE IF days_since.v <= 180
         THEN Factor("review_recency", 400, 35, "risk", "Declining activity", days_since)
    ELSE Factor("review_recency", 100, 35, "risk", "No recent activity", days_since)

\* f"{decay_rate:.2f}"
Fmt2(x) == IF x.k = "NaN" THEN NaN ELSE Num(10 * RDiv(x.v, 10))

decay_factor(decay_rate) ==
    IF IsNone(decay_rate) THEN << >>
    ELSE IF Gt(decay_rate, 1200)
         THEN Factor("review_decay", 900, 30, "protective", "Growing reviews", Fmt2(decay_rate))
    ELSE IF Gt(decay_rate, 800)
         THEN Factor("review_decay", 800, 30, "protective", "Stable review activity", None)
    ELSE IF Gt(decay_rate, 500)
         THEN Factor("review_decay", 500, 30, "risk", "Declining reviews", Fmt2(decay_rate))
    ELSE Factor("review_decay", 200, 30, "risk", "Sharp review decline", Fmt2(decay_rate))

\* variant: without recent activity the score is the neutral one, whatever
\* the posting history
hiring_factor_neutral_without_activity(job_postings_6m, job_postings_peak) ==
    IF IsNone(job_postings_6m) THEN << >>
    ELSE IF has_activity(job_postings_6m, job_postings_peak)
            /\ ratio_above_06(job_postings_6m, job_postings_peak)
         THEN Factor("job_postings", 850, 20, "protective", "Active hiring", None)
    ELSE IF has_activity(job_postings_6m, job_postings_peak)
         THEN Factor("job_postings", 650, 20, "protective", "Recent job postings", None)
    ELSE Factor("job_postings", 500, 20, "silent", "", None)

\* variant: the neutral tier is annotated like the other tiers
hiring_factor_all_tiers_annotated(job_postings_6m, job_postings_peak) ==
    IF IsNone(job_postings_6m) THEN << >>
    ELSE IF has_activity(job_postings_6m, job_postings_peak)
            /\ ratio_above_06(job_postings_6m, job_postings_peak)
         THEN Factor("job_postings", 850, 20, "protective", "Active hiring", None)
    ELSE IF has_activity(job_postings_6m, job_postings_peak)
         THEN Factor("job_postings", 650, 20, "protective", "Recent job postings", None)
    ELSE IF Truthy(job_postings_peak) /\ Gt(job_postings_peak, 0)
         THEN Factor("job_postings", 350, 20, "risk", "Reduced hiring activity", None)
    ELSE Factor("job_postings", 500, 20, "protective", "No hiring history", None)

hiring_factor(job_postings_6m, job_postings_peak) ==
    IF IsNone(job_postings_6m) THEN << >>
    ELSE IF has_activity(job_postings_6m, job_postings_peak)
            /\ ratio_above_06(job_postings_6m, job_postings_peak)
         THEN Factor("job_postings", 850, 20, "protective", "Active hiring", None)
    ELSE IF has_activity(job_postings_6m, job_postings_peak)
         THEN Factor("job_postings", 650, 20, "protective", "Recent job postings", None)
    ELSE IF Truthy(job_postings_peak) /\ Gt(job_postings_peak, 0)
         THEN Factor("job_postings", 350, 20, "risk", "Reduced hiring activity", None)
    ELSE Factor("job_postings", 500, 20, "silent", "", None)

visual_factor(street_view_score) ==
    IF IsNone(street_view_score) THEN << >>
    ELSE IF Truthy(street_view_score)
         THEN Factor("street_view", 800, 15, "protective",
                     "Visible operational indicators", None)
    ELSE Factor("street_view", 200, 15, "risk", "No visible operational indicators", None)

\* variant: the annotation lists outlive the call and are appended to
Notes_kept(factors, kind) ==
    LET sel == SelectSeq(factors, LAMBDA f : f.kind = kind)
        kept == IF last.fn # "score_survival" THEN << >>
                ELSE IF kind = "risk" THEN last.out.risk_factors
                ELSE last.out.protective_factors
    IN  kept \o [i \in 1..Len(sel) |-> [text |-> sel[i].text, arg |-> sel[i].arg]]

\* risk_factors / protective_factors: fresh lists, one entry per annotated factor
Notes(factors, kind) ==
    LET sel == SelectSeq(factors, LAMBDA f : f.kind = kind)
    IN  [i \in 1..Len(sel) |-> [text |-> sel[i].text, arg |-> sel[i].arg]]

\* np.var(signal_scores), in millionths
np_var(signal_scores) ==
    LET n == Len(signal_scores)
        sum == SeqSum(signal_scores)
        squares == SeqSum([i \in 1..n |-> signal_scores[i] * signal_scores[i]])
    IN  RDiv(n * squares - sum * sum, n * n)

\* variant: anything short of three signals is "medium"
determine_confidence_surv_floor(signal_count, signal_scores) ==
    IF signal_count >= 3 THEN "high" ELSE "medium"

\* variant: three signals that disagree are only "medium"
determine_confidence_surv_by_variance(signal_count, signal_scores) ==
    IF signal_count >= 3
    THEN LET score_variance == IF Len(signal_scores) > 1 THEN np_var(signal_scores)
                               ELSE 0
         IN  IF score_variance < 100000 THEN "high" ELSE "medium"
    ELSE IF signal_count = 2 THEN "medium"
    ELSE "low"

determine_confidence_surv(signal_count, signal_scores) ==
    IF signal_count >= 3
    THEN LET score_variance == IF Len(signal_scores) > 1 THEN np_var(signal_scores)
                               ELSE 0
         IN  IF score_variance < 100000 THEN "high" ELSE "high"
    ELSE IF signal_count = 2 THEN "medium"
    ELSE "low"

\* variant: the factor of largest weight, whatever its score
identify_primary_indicator_by_weight(factors) ==
    IF factors = << >> THEN "none"
    ELSE LET i == CHOOSE i \in 1..Len(factors) :
                      /\ \A j \in 1..Len(factors) : factors[j].weight <= factors[i].weight
                      /\ \A j \in 1..(i - 1) : factors[j].weight < factors[i].weight
         IN  factors[i].name

\* signals[np.argmax(score * weight)]: the first largest influence
identify_primary_indicator(factors) ==
    IF factors = << >> THEN "none"
    ELSE LET i == CHOOSE i \in 1..Len(factors) :
                      /\ \A j \in 1..Len(factors) :
                             factors[j].score * factors[j].weight
                                 <= factors[i].score * factors[i].weight
                      /\ \A j \in 1..(i - 1) :
                             factors[j].score * factors[j].weight
                                 < factors[i].score * factors[i].weight
         IN  factors[i].name

\* variant: the scores are added up, not averaged
survival_prob_sum(factors) ==
    IF factors = << >> THEN 500
    ELSE SeqSum([i \in 1..Len(factors) |-> factors[i].score])

\* variant: the weights are used as they are and the products are not divided
\* by the weight that is present
survival_prob_unnormalised(factors) ==
    IF factors = << >> THEN 500
    ELSE RDiv(SeqSum([i \in 1..Len(factors) |-> factors[i].score * factors[i].weight]),
              100)

\* [w / total_weight for w in signal_weights], kept as fractions
normalized_weights(factors) ==
    LET total_weight == SeqSum([i \in 1..Len(factors) |-> factors[i].weight])
    IN  [i \in 1..Len(factors) |-> [num |-> factors[i].weight, den |-> total_weight]]

\* np.average(signal_scores, weights = normalized_weights), or the 0.5 default
survival_prob(factors) ==
    IF factors = << >> THEN 500
    ELSE np_average([i \in 1..Len(factors) |-> factors[i].score],
                    normalized_weights(factors))

score_survival(now, a) ==
    LET days_since == evaluate_review_recency(now, a.last_review_date)
        decay_rate == calculate_review_decay_rate(a.review_count_3m, a.review_count_6_12m)
        street_view_score == evaluate_street_view(a.facade_visible, a.signage_visible,
                                                  a.lighting_visible)
        factors == recency_factor(days_since) \o decay_factor(decay_rate)
                   \o hiring_factor(a.job_postings_6m, a.job_postings_peak)
                   \o visual_factor(street_view_score)
    IN  [raised |-> "no",
         is_active_prob |-> survival_prob(factors),
         confidence_level |->
             determine_confidence_surv(Len(factors),
                                       [i \in 1..Len(factors) |-> factors[i].score]),
         days_since_last_review |-> days_since,
         review_decay_rate |-> decay_rate,
         risk_factors |-> Notes(factors, "risk"),
         protective_factors |->
             Notes(factors, "protective")
             \o (IF factors = << >>
                 THEN << [text |-> "Insufficient data - neutral assessment", arg |-> None] >>
                 ELSE << >>),
         primary_indicator |-> identify_primary_indicator(factors),
         signals_used |-> [i \in 1..Len(factors) |-> factors[i].name]]

(***************************************************************************)
(* models/employee_estimator.py: the estimator of the collection script.   *)
(* Its estimates are whole numbers of employees (kept in thousandths like  *)
(* every other number).  The category of the estimator is in none of the   *)
(* configuration tables, so the .get() defaults apply.                     *)
(***************************************************************************)
\* int(x): truncation towards zero, of x in thousandths
PyInt(x) == IF x >= 0 THEN x \div 1000 ELSE -((-x) \div 1000)
\* round(n / d) to an integer, ties to the even integer (d > 0)
PyRound(n, d) ==
    LET q == n \div d
        r == n % d
    IN  IF 2 * r < d THEN q
        ELSE IF 2 * r > d THEN q + 1
        ELSE IF q % 2 = 0 THEN q ELSE q + 1
\* math.ceil(n / d) (d > 0)
PyCeil(n, d) == -((-n) \div d)

\* EMPLOYEE_AREA_COEFFICIENTS.get(category, 1 / 30.0): square metres per employee
area_coeff_inverse == 30
\* REVIEW_VELOCITY_BASELINES.get(category, 5.0)
review_velocity_baseline == 5000
\* POPULAR_TIMES_MAX_CUSTOMERS_PER_HOUR.get(category, 100.0), in whole customers
max_customers_per_hour == 100
\* customers one employee serves per hour
POPULAR_TIMES_CUSTOMERS_PER_EMPLOYEE == 15000

estimate_from_linkedin_count(linkedin_employee_count) ==
    IF IsNone(linkedin_employee_count) THEN None
    ELSE Num(1000 * Max(PyInt(linkedin_employee_count.v), 0))

estimate_from_job_postings_12m(job_postings_12m) ==
    IF IsNone(job_postings_12m) THEN None
    ELSE Num(1000 * Max(PyRound(3 * job_postings_12m.v, 1000), 0))

estimate_from_building_area_m2(building_area_m2) ==
    IF IsNone(building_area_m2) THEN None
    ELSE Num(1000 * Max(PyRound(building_area_m2.v, area_coeff_inverse * 1000), 0))

estimate_from_review_density(reviews_per_month, avg_reviews_per_month) ==
    IF IsNone(reviews_per_month) THEN None
    ELSE LET baseline == IF Truthy(avg_reviews_per_month) THEN avg_reviews_per_month.v
                         ELSE review_velocity_baseline
             baseline_staff == Max(PyRound(review_velocity_baseline * 3, 10 * 1000), 1)
         IN  IF baseline <= 0 THEN None
             ELSE Num(1000 * Max(PyRound(baseline_staff * reviews_per_month.v, baseline), 1))

estimate_from_popular_times(popular_times_peak) ==
    IF IsNone(popular_times_peak) THEN None
    ELSE IF popular_times_peak.v <= 0 THEN None
    ELSE LET peak == popular_times_peak.v
             customers_per_hour ==
                 IF peak <= 100000 THEN RDiv(peak * max_customers_per_hour, 100)
                 ELSE peak
             employees == PyCeil(customers_per_hour, POPULAR_TIMES_CUSTOMERS_PER_EMPLOYEE)
         IN  Num(1000 * Max(employees, 1))

estimate_from_sos_partners(sos_partner_count) ==
    IF IsNone(sos_partner_count) THEN None
    ELSE Num(1000 * Max(PyRound(2 * sos_partner_count.v, 1000), 0))

\* one entry of the estimates dict of combine_estimates
Method(name, value) == << [name |-> name, value |-> value] >>

\* variant: the mean is taken over every estimator that was asked, an
\* estimator without a value counting as zero
combine_estimates_mean_over_asked(service, signals) ==
    LET review_density ==
            Method("review_density",
                   estimate_from_review_density(signals.reviews_per_month,
                                                signals.reviews_per_month_avg))
        popular_times ==
            Method("popular_times", estimate_from_popular_times(signals.popular_times_peak))
        estimates ==
            IF service THEN review_density \o popular_times
            ELSE Method("linkedin",
                        estimate_from_linkedin_count(signals.linkedin_employee_count))
                 \o Method("job_postings",
                           estimate_from_job_postings_12m(signals.job_postings_12m))
                 \o Method("building_area",
                           estimate_from_building_area_m2(signals.building_area_m2))
                 \o review_density \o popular_times
                 \o Method("sos_partners",
                           estimate_from_sos_partners(signals.sos_partner_count))
        kept == SelectSeq(estimates, LAMBDA e : ~IsNone(e.value))
        valid == [i \in 1..Len(kept) |-> kept[i].value.v]
    IN  IF valid = << >>
        THEN [employee_estimate |-> None, employee_estimate_min |-> None,
              employee_estimate_max |-> None, employee_estimate_methods |-> << >>]
        ELSE [employee_estimate |-> Num(1000 * PyRound(SeqSum(valid), 1000 * Len(estimates))),
              employee_estimate_min |-> Num(SeqMin(valid)),
              employee_estimate_max |-> Num(SeqMax(valid)),
              employee_estimate_methods |-> [i \in 1..Len(kept) |-> kept[i].name]]

\* service: self.category in SERVICE_CATEGORIES
combine_estimates(service, signals) ==
    LET review_density ==
            Method("review_density",
                   estimate_from_review_density(signals.reviews_per_month,
                                                signals.reviews_per_month_avg))
        popular_times ==
            Method("popular_times", estimate_from_popular_times(signals.popular_times_peak))
        estimates ==
            IF service THEN review_density \o popular_times
            ELSE Method("linkedin",
                        estimate_from_linkedin_count(signals.linkedin_employee_count))
                 \o Method("job_postings",
                           estimate_from_job_postings_12m(signals.job_postings_12m))
                 \o Method("building_area",
                           estimate_from_building_area_m2(signals.building_area_m2))
                 \o review_density \o popular_times
                 \o Method("sos_partners",
                           estimate_from_sos_partners(signals.sos_partner_count))
        kept == SelectSeq(estimates, LAMBDA e : ~IsNone(e.value))
        valid == [i \in 1..Len(kept) |-> kept[i].value.v]
    IN  IF valid = << >>
        THEN [employee_estimate |-> None, employee_estimate_min |-> None,
              employee_estimate_max |-> None, employee_estimate_methods |-> << >>]
        ELSE [employee_estimate |-> Num(1000 * PyRound(SeqSum(valid), 1000 * Len(valid))),
              employee_estimate_min |-> Num(SeqMin(valid)),
              employee_estimate_max |-> Num(SeqMax(valid)),
              employee_estimate_methods |-> [i \in 1..Len(kept) |-> kept[i].name]]

\* the mean of the defined reviews_per_month of the collected records, or None
reviews_per_month_avg(processed_data) ==
    LET defined == SelectSeq(processed_data, LAMBDA b : ~IsNone(b.reviews_per_month))
        values == [i \in 1..Len(defined) |-> defined[i].reviews_per_month.v]
    IN  IF values = << >> THEN None ELSE Num(RDiv(SeqSum(values), Len(values)))

\* the estimation loop of the collection script: one combine_estimates per record
employee_estimation_loop(service, processed_data) ==
    LET avg == reviews_per_month_avg(processed_data)
    IN  [i \in 1..Len(processed_data) |->
            combine_estimates(service,
                [linkedin_employee_count |-> processed_data[i].linkedin_employee_count,
                 job_postings_12m |-> processed_data[i].job_postings_12m,
                 building_area_m2 |-> processed_data[i].building_area_m2,
                 popular_times_peak |-> processed_data[i].popular_times_peak,
                 sos_partner_count |-> processed_data[i].sos_partner_count,
                 reviews_per_month |-> processed_data[i].reviews_per_month,
                 reviews_per_month_avg |-> avg])]

(***************************************************************************)
(* Inputs the collaborators supply                                         *)
(***************************************************************************)
Day0 == 400
TickDays == 100

\* the dates the clock can read
Days == { Day0 + k * TickDays : k \in 0..MaxTicks }

Categories == {"722513", "446110", "999999"}
Headcounts == {None, Num(0), Num(500), Num(1000), Num(25000), Num(100000)}
\* <<review_count_3m, review_count_6_12m>>
EmpReviewCells ==
    { <<None, None>>, <<Num(-5), Num(20)>>, <<Num(2), Num(20)>>,
      <<Num(3), Num(3)>>, <<Num(10), Num(20)>>, <<Num(40), Num(20)>> }
Areas == {None, Num(0), Num(100000), Num(800000), Num(4000000)}
\* <<job_postings_6m, job_postings_peak>>
EmpJobCells ==
    { <<None, None>>, <<Num(-1), Num(5)>>, <<Num(0), Num(0)>>, <<Num(1), Num(5)>>,
      <<Num(7), Num(10)>>, <<Num(5), Num(5)>> }
ReviewDates ==
    { None, BadStr, Date(0), Date(220), Date(250), Date(310), Date(340), Date(370),
      Date(390) }
SurvReviewCells ==
    { <<None, None>>, <<Num(-5), Num(20)>>, <<Num(0), Num(20)>>, <<Num(6), Num(20)>>,
      <<Num(10), Num(20)>>, <<Num(40), Num(20)>>, <<Num(40), Num(1)>> }
SurvJobCells ==
    { <<None, None>>, <<Num(5), None>>, <<None, Num(5)>>, <<Num(-1), Num(5)>>,
      <<Num(0), Num(0)>>, <<Num(0), Num(-1)>>, <<Num(0), Num(5)>>, <<Num(1), Num(10)>>,
      <<Num(5), Num(10)>>, <<Num(5), Num(5)>> }
\* <<facade_visible, signage_visible, lighting_visible>>
VisualCells ==
    { <<None, None, None>>, <<Bool(TRUE), None, None>>, <<Bool(TRUE), Bool(TRUE), None>>,
      <<Bool(TRUE), Bool(FALSE), Bool(TRUE)>>, <<Bool(FALSE), Bool(FALSE), Bool(FALSE)>> }

\* direct calls of estimate_from_review_velocity: counts of the recent window
RecentCounts == {2, 3, 10, 16, 40, 100, 200, 300}
VelocityCalls ==
    { [review_count_3m |-> Num(r3), review_count_6_12m |-> Num(r6), naics_code |-> c] :
        r3 \in RecentCounts, r6 \in {2, 3, 20}, c \in Categories }

EmpArgs(c, h, r, ar, j) ==
    [naics_code |-> c, linkedin_headcount |-> h,
     review_count_3m |-> r[1], review_count_6_12m |-> r[2],
     building_area_sqm |-> ar,
     job_postings_6m |-> j[1], job_postings_peak |-> j[2]]

SurvArgs(d, r, j, v) ==
    [last_review_date |-> d,
     review_count_3m |-> r[1], review_count_6_12m |-> r[2],
     job_postings_6m |-> j[1], job_postings_peak |-> j[2],
     facade_visible |-> v[1], signage_visible |-> v[2], lighting_visible |-> v[3]]

\* bundles of the one category of ScenarioBaselines: review counts alone
ScenarioBundles ==
    { EmpArgs("coffee", None, r, None, <<None, None>>) : r \in EmpReviewCells }

EmpBundles ==
    { EmpArgs(c, h, r, ar, j) :
        c \in Categories, h \in Headcounts, r \in EmpReviewCells,
        ar \in Areas, j \in EmpJobCells }
SurvBundles ==
    { SurvArgs(d, r, j, v) :
        d \in ReviewDates, r \in SurvReviewCells, j \in SurvJobCells, v \in VisualCells }

\* the estimates dict a caller of ensemble_estimate builds from a bundle: one
\* entry per signal, (None, None, None) where the signal has no opinion
SignalEntry(name, called, e) ==
    << [name |-> name, point |-> IF called THEN e.point ELSE None,
        lo |-> IF called THEN e.lo ELSE 0, hi |-> IF called THEN e.hi ELSE 0] >>
SignalEstimates(B, a) ==
    SignalEntry("linkedin", Truthy(a.linkedin_headcount),
                estimate_from_linkedin(a.linkedin_headcount))
    \o SignalEntry("review_velocity",
                   Truthy(a.review_count_3m) /\ Truthy(a.review_count_6_12m),
                   estimate_from_review_velocity(B, a.review_count_3m,
                                                 a.review_count_6_12m, a.naics_code))
    \o SignalEntry("building_area", Truthy(a.building_area_sqm),
                   estimate_from_building_area(B, a.building_area_sqm, a.naics_code))
    \o SignalEntry("job_postings",
                   ~IsNone(a.job_postings_6m) /\ ~IsNone(a.job_postings_peak),
                   estimate_from_job_postings(B, a.job_postings_6m,
                                              a.job_postings_peak, a.naics_code))
\* a dict keeps the order its caller filled it in: the order of estimate(), or
\* the opposite one
Reverse(s) == [i \in 1..Len(s) |-> s[Len(s) + 1 - i]]
EstimateDicts ==
    LET filled == { SignalEstimates(EMPLOYEE_ESTIMATION_BASELINES, a) :
                      a \in { b \in EmpBundles : b.naics_code = "722513" } }
    IN  filled \cup { Reverse(e) : e \in filled }

\* rows of a DataFrame: row.get(column) of a missing cell is NaN
EmpRows ==
    { EmpArgs(c, h, r, NaN, j) :
        c \in Categories, h \in {NaN, Num(25000)},
        r \in { <<NaN, NaN>>, <<NaN, Num(20)>> },
        j \in { <<NaN, NaN>>, <<NaN, Num(5)>> } }
SurvRows ==
    { SurvArgs(d, r, <<NaN, NaN>>, v) :
        d \in {NaN, Date(390)},
        r \in { <<NaN, NaN>>, <<Num(40), NaN>>, <<NaN, Num(20)>> },
        v \in { <<NaN, NaN, NaN>>, <<Bool(TRUE), Bool(TRUE), NaN>> } }

RECURSIVE SeqsUpTo(_, _)
SeqsUpTo(S, n) ==
    IF n = 0 THEN { << >> }
    ELSE LET shorter == SeqsUpTo(S, n - 1)
         IN  shorter \cup { Append(s, x) : s \in shorter, x \in S }

EmpFrames ==
    { df \in SeqsUpTo(EmpRows, MaxBatch) :
        df # << >> /\ \A i \in 1..Len(df) : df[i].naics_code = df[1].naics_code }
SurvFrames == SeqsUpTo(SurvRows, MaxBatch) \ { << >> }

\* the records the collection script has gathered: merged dicts, None when a
\* collaborator found nothing
Blank ==
    [linkedin_employee_count |-> None, job_postings_12m |-> None,
     building_area_m2 |-> None, popular_times_peak |-> None,
     sos_partner_count |-> None, reviews_per_month |-> None]
CollectedRecords ==
    { Blank }
    \cup { [Blank EXCEPT !.reviews_per_month = Num(x)] : x \in {0, 5000, 15000} }
    \cup { [Blank EXCEPT !.linkedin_employee_count = Num(x)] : x \in {0, 25000} }
    \cup { [Blank EXCEPT !.job_postings_12m = Num(x)] : x \in {0, 2000} }
    \cup { [Blank EXCEPT !.building_area_m2 = Num(x)] : x \in {0, 300000} }
    \cup { [Blank EXCEPT !.popular_times_peak = Num(x)] : x \in {0, 50000} }
    \cup { [Blank EXCEPT !.sos_partner_count = Num(x)] : x \in {0, 3000} }
    \cup { [Blank EXCEPT !.linkedin_employee_count = Num(25000),
                         !.reviews_per_month = Num(5000)] }
CollectedBatches == SeqsUpTo(CollectedRecords, MaxBatch) \ { << >> }

(***************************************************************************)
(* State machine.  req is the request in hand (the bundle of one           *)
(* establishment, or a DataFrame), last the latest call with its result,   *)
(* prev the call before it, today the date datetime.now() reads.           *)
(***************************************************************************)
NoCall == [fn |-> "none"]

Init ==
    /\ \/ /\ naics_baselines = EMPLOYEE_ESTIMATION_BASELINES
          /\ req \in { [fn |-> "estimate", args |-> a] : a \in EmpBundles }
                 \cup { [fn |-> "score_survival", args |-> a] : a \in SurvBundles }
                 \cup { [fn |-> "process_batch_employees", args |-> df] :
                            df \in EmpFrames }
                 \cup { [fn |-> "process_batch_survival", args |-> df] :
                            df \in SurvFrames }
                 \cup { [fn |-> "estimate_from_review_velocity", args |-> a] :
                            a \in VelocityCalls }
                 \cup { [fn |-> "ensemble_estimate", args |-> e] : e \in EstimateDicts }
                 \cup { [fn |-> "employee_estimation_loop",
                         args |-> [service |-> sv, data |-> pd]] :
                            sv \in BOOLEAN, pd \in CollectedBatches }
       \/ /\ naics_baselines = ScenarioBaselines
          /\ req \in { [fn |-> "estimate", args |-> a] : a \in ScenarioBundles }
    /\ today = Day0
    /\ last = NoCall
    /\ prev = NoCall

\* datetime.now() moves on between calls
Tick ==
    /\ today < Day0 + MaxTicks * TickDays
    /\ today' = today + TickDays
    /\ UNCHANGED <<naics_baselines, req, last, prev>>

\* EmployeeEstimator.estimate(record, naics_code, ...)
Estimate ==
    /\ req.fn = "estimate"
    /\ last' = [fn |-> "estimate", args |-> req.args,
                out |-> estimate(naics_baselines, req.args)]
    /\ prev' = last
    /\ UNCHANGED <<naics_baselines, today, req>>

\* SurvivalDetector.score_survival(...)
ScoreSurvival ==
    /\ req.fn = "score_survival"
    /\ last' = [fn |-> "score_survival", args |-> req.args,
                out |-> score_survival(today, req.args)]
    /\ prev' = last
    /\ UNCHANGED <<naics_baselines, today, req>>

\* EmployeeEstimator.estimate_from_review_velocity(...), called on its own
EstimateFromReviewVelocity ==
    /\ req.fn = "estimate_from_review_velocity"
    /\ last' = [fn |-> "estimate_from_review_velocity", args |-> req.args,
                out |-> estimate_from_review_velocity(
                            naics_baselines, req.args.review_count_3m,
                            req.args.review_count_6_12m, req.args.naics_code)]
    /\ prev' = last
    /\ UNCHANGED <<naics_baselines, today, req>>

\* EmployeeEstimator.ensemble_estimate(estimates), called on its own
EnsembleEstimate ==
    /\ req.fn = "ensemble_estimate"
    /\ last' = [fn |-> "ensemble_estimate", args |-> req.args,
                out |-> ensemble_estimate(req.args)]
    /\ prev' = last
    /\ UNCHANGED <<naics_baselines, today, req>>

\* a collaborator delivers one more field group of an estimated bundle
Estimated == last # NoCall /\ last.args = req.args /\ prev \in {NoCall, last}

\* more reviews arrive in the recent window of an establishment
MoreReviews ==
    /\ req.fn = "estimate_from_review_velocity" /\ Estimated
    /\ \E r3 \in RecentCounts :
           /\ r3 > req.args.review_count_3m.v
           /\ req' = [req EXCEPT !.args.review_count_3m = Num(r3)]
    /\ UNCHANGED <<naics_baselines, today, last, prev>>

\* a signal that had no opinion gets one: one more entry of the estimates dict
AddEstimate ==
    /\ req.fn = "ensemble_estimate" /\ Estimated
    /\ \E e \in EstimateDicts :
           /\ \E i \in 1..Len(e) :
                  /\ IsNone(req.args[i].point) /\ ~IsNone(e[i].point)
                  /\ \A j \in 1..Len(e) : j # i => e[j] = req.args[j]
           /\ req' = [req EXCEPT !.args = e]
    /\ UNCHANGED <<naics_baselines, today, last, prev>>

AddEmployeeSignal ==
    /\ req.fn = "estimate" /\ Estimated
    /\ \/ /\ IsNone(req.args.linkedin_headcount)
          /\ \E h \in Headcounts \ {None} :
                 req' = [req EXCEPT !.args.linkedin_headcount = h]
       \/ /\ IsNone(req.args.review_count_3m) /\ IsNone(req.args.review_count_6_12m)
          /\ \E r \in EmpReviewCells \ { <<None, None>> } :
                 req' = [req EXCEPT !.args.review_count_3m = r[1],
                                    !.args.review_count_6_12m = r[2]]
       \/ /\ IsNone(req.args.building_area_sqm)
          /\ \E ar \in Areas \ {None} :
                 req' = [req EXCEPT !.args.building_area_sqm = ar]
       \/ /\ IsNone(req.args.job_postings_6m) /\ IsNone(req.args.job_postings_peak)
          /\ \E j \in EmpJobCells \ { <<None, None>> } :
                 req' = [req EXCEPT !.args.job_postings_6m = j[1],
                                    !.args.job_postings_peak = j[2]]
    /\ UNCHANGED <<naics_baselines, today, last, prev>>

AddSurvivalSignal ==
    /\ req.fn = "score_survival" /\ Estimated
    /\ \/ /\ IsNone(req.args.last_review_date)
          /\ \E d \in ReviewDates \ {None} :
                 req' = [req EXCEPT !.args.last_review_date = d]
       \/ /\ IsNone(req.args.review_count_3m) /\ IsNone(req.args.review_count_6_12m)
          /\ \E r \in SurvReviewCells \ { <<None, None>> } :
                 req' = [req EXCEPT !.args.review_count_3m = r[1],
                                    !.args.review_count_6_12m = r[2]]
       \/ /\ IsNone(req.args.job_postings_6m) /\ IsNone(req.args.job_postings_peak)
          /\ \E j \in SurvJobCells \ { <<None, None>> } :
                 req' = [req EXCEPT !.args.job_postings_6m = j[1],
                                    !.args.job_postings_peak = j[2]]
       \/ /\ IsNone(req.args.facade_visible) /\ IsNone(req.args.signage_visible)
          /\ IsNone(req.args.lighting_visible)
          /\ \E v \in VisualCells \ { <<None, None, None>> } :
                 req' = [req EXCEPT !.args.facade_visible = v[1],
                                    !.args.signage_visible = v[2],
                                    !.args.lighting_visible = v[3]]
    /\ UNCHANGED <<naics_baselines, today, last, prev>>

\* variant: the result columns are attached to the rows in the opposite order
process_batch_estimates_misaligned(B, df) ==
    [i \in 1..Len(df) |-> estimate(B, df[Len(df) + 1 - i])]

\* the loop of process_batch and the concat of rows and results, by position
process_batch_estimates(B, df) ==
    [i \in 1..Len(df) |-> estimate(B, df[i])]

\* EmployeeEstimator.process_batch(df, naics_code): one estimate per row
ProcessBatchEmployees ==
    /\ req.fn = "process_batch_employees"
    /\ last' = [fn |-> "process_batch_employees", args |-> req.args,
                out |-> process_batch_estimates(naics_baselines, req.args)]
    /\ prev' = last
    /\ UNCHANGED <<naics_baselines, today, req>>

\* SurvivalDetector.process_batch(df): one estimate per row, each reading the
\* clock when its turn comes
ProcessBatchSurvival ==
    /\ req.fn = "process_batch_survival"
    /\ \E clock \in [1..Len(req.args) -> Days] :
           /\ clock[1] >= today
           /\ \A i \in 1..(Len(req.args) - 1) : clock[i] <= clock[i + 1]
           /\ last' = [fn |-> "process_batch_survival", args |-> req.args,
                       out |-> [i \in 1..Len(req.args) |->
                                   score_survival(clock[i], req.args[i])]]
           /\ today' = clock[Len(req.args)]
    /\ prev' = last
    /\ UNCHANGED <<naics_baselines, req>>

\* the employee estimation of the collection script over the collected records
EmployeeEstimationLoop ==
    /\ req.fn = "employee_estimation_loop"
    /\ last' = [fn |-> "employee_estimation_loop", args |-> req.args,
                out |-> employee_estimation_loop(req.args.service, req.args.data)]
    /\ prev' = last
    /\ UNCHANGED <<naics_baselines, today, req>>

BatchFns == {"process_batch_employees", "process_batch_survival",
             "employee_estimation_loop"}
\* the records of a batch request or call
Rows(c) == IF c.fn = "employee_estimation_loop" THEN c.args.data ELSE c.args
WithRows(c, df) ==
    IF c.fn = "employee_estimation_loop" THEN [c EXCEPT !.args.data = df]
    ELSE [c EXCEPT !.args = df]
\* the records that can join the batch in hand
Joinable ==
    IF req.fn = "process_batch_employees"
    THEN { x \in EmpRows : x.naics_code = req.args[1].naics_code }
    ELSE IF req.fn = "process_batch_survival" THEN SurvRows
    ELSE CollectedRecords

\* the next run sees another batch: the records in another order, one record
\* less, or one record more
ChangeBatch ==
    /\ req.fn \in BatchFns /\ Estimated
    /\ LET df == Rows(req)
       IN  \/ /\ Len(df) >= 2
              /\ req' = WithRows(req, Tail(df) \o << Head(df) >>)
           \/ /\ Len(df) >= 2
              /\ \E i \in 1..Len(df) :
                     req' = WithRows(req, SubSeq(df, 1, i - 1)
                                          \o SubSeq(df, i + 1, Len(df)))
           \/ /\ Len(df) < MaxBatch
              /\ \E x \in Joinable : req' = WithRows(req, Append(df, x))
    /\ req' # req
    /\ UNCHANGED <<naics_baselines, today, last, prev>>

Next ==
    \/ Tick
    \/ Estimate
    \/ ScoreSurvival
    \/ EstimateFromReviewVelocity
    \/ MoreReviews
    \/ EnsembleEstimate
    \/ AddEstimate
    \/ AddEmployeeSignal
    \/ AddSurvivalSignal
    \/ ProcessBatchEmployees
    \/ ProcessBatchSurvival
    \/ EmployeeEstimationLoop
    \/ ChangeBatch

Spec == Init /\ [][Next]_vars

(***************************************************************************)
(* The calls a state records                                               *)
(***************************************************************************)
\* every estimate() call in the state, as [args, out]
EmpResults ==
    { [args |-> c.args, out |-> c.out] : c \in { x \in {last, prev} : x.fn = "estimate" } }
    \cup (IF last.fn = "process_batch_employees"
          THEN { [args |-> last.args[i], out |-> last.out[i]] : i \in 1..Len(last.args) }
          ELSE {})

\* every score_survival() call in the state, as [args, out]
SurvResults ==
    { [args |-> c.args, out |-> c.out] :
        c \in { x \in {last, prev} : x.fn = "score_survival" } }
    \cup (IF last.fn = "process_batch_survival"
          THEN { [args |-> last.args[i], out |-> last.out[i]] : i \in 1..Len(last.args) }
          ELSE {})

TypeOK ==
    /\ today \in Day0..(Day0 + MaxTicks * TickDays)
    /\ last.fn \in {"none", req.fn}
    /\ prev.fn \in {"none", req.fn}

(***************************************************************************)
(* Properties                                                              *)
(***************************************************************************)
KnownCategory(a) == a.naics_code \in DOMAIN naics_baselines

EmpCells(a) ==
    { a.linkedin_headcount, a.review_count_3m, a.review_count_6_12m,
      a.building_area_sqm, a.job_postings_6m, a.job_postings_peak }
SurvCells(a) ==
    { a.last_review_date, a.review_count_3m, a.review_count_6_12m,
      a.job_postings_6m, a.job_postings_peak,
      a.facade_visible, a.signage_visible, a.lighting_visible }

\* a <= b <= c on output fields; a NaN or None field satisfies no comparison
Ordered(a, b, c) ==
    /\ a.k = "num" /\ b.k = "num" /\ c.k = "num"
    /\ a.v <= b.v /\ b.v <= c.v

\* C1: every estimate() for a known category, whatever signals are present
\* (headcounts of any positive size, fractions included), returns
\* ci_lower <= point_estimate <= ci_upper.
C1_IntervalContainsPoint ==
    \A r \in EmpResults :
        (KnownCategory(r.args) /\ NaN \notin EmpCells(r.args))
            => Ordered(r.out.ci_lower, r.out.point_estimate, r.out.ci_upper)

\* C2: every estimate() for a known category returns a point_estimate inside
\* [min_employees, max_employees] of the category, direct headcount included.
C2_PointWithinCategoryRange ==
    \A r \in EmpResults :
        (KnownCategory(r.args) /\ NaN \notin EmpCells(r.args))
            => Ordered(Num(naics_baselines[r.args.naics_code].min_employees),
                       r.out.point_estimate,
                       Num(naics_baselines[r.args.naics_code].max_employees))

\* C3: score_survival returns 0 <= is_active_prob <= 1 for every combination
\* of present and absent factors and every factor value.
C3_ProbabilityInUnitInterval ==
    \A r \in SurvResults : r.out.is_active_prob >= 0 /\ r.out.is_active_prob <= 1000

\* C3 witness: a call in which all four factors were combined
C3_Witness ==
    \E r \in SurvResults :
        Len(r.out.signals_used) = 4 /\ r.out.is_active_prob > 900

\* an estimator ran and returned a point other than None
Opinion(called, e) == called /\ ~IsNone(e.point)

NoEmployeeOpinion(B, a) ==
    /\ ~Opinion(Truthy(a.linkedin_headcount), estimate_from_linkedin(a.linkedin_headcount))
    /\ ~Opinion(Truthy(a.review_count_3m) /\ Truthy(a.review_count_6_12m),
                estimate_from_review_velocity(B, a.review_count_3m,
                                              a.review_count_6_12m, a.naics_code))
    /\ ~Opinion(Truthy(a.building_area_sqm),
                estimate_from_building_area(B, a.building_area_sqm, a.naics_code))
    /\ ~Opinion(~IsNone(a.job_postings_6m) /\ ~IsNone(a.job_postings_peak),
                estimate_from_job_postings(B, a.job_postings_6m,
                                           a.job_postings_peak, a.naics_code))

\* C4: for a known category signals_used is empty exactly when no per-signal
\* estimator had an opinion (so for a bundle of undefined fields); the result
\* is then avg_employees, [min_employees, max_employees], "baseline", "low";
\* otherwise the dominant signal is one of the contributing signals.
C4_BaselineFallback ==
    \A r \in EmpResults :
        KnownCategory(r.args) =>
            LET baseline == naics_baselines[r.args.naics_code]
            IN  /\ (r.out.signals_used = << >>) <=> NoEmployeeOpinion(naics_baselines, r.args)
                /\ (EmpCells(r.args) = {None}) => (r.out.signals_used = << >>)
                /\ (r.out.signals_used = << >>) =>
                       /\ r.out.point_estimate = Num(baseline.avg_employees)
                       /\ r.out.ci_lower = Num(baseline.min_employees)
                       /\ r.out.ci_upper = Num(baseline.max_employees)
                       /\ r.out.primary_signal = "baseline"
                       /\ r.out.confidence_level = "low"
                /\ (r.out.signals_used # << >>) =>
                       r.out.primary_signal \in Range(r.out.signals_used)

\* C4 witness: estimate() was called for a known category with every field undefined
C4_Witness ==
    \E r \in EmpResults :
        /\ KnownCategory(r.args) /\ EmpCells(r.args) = {None}
        /\ r.out.primary_signal = "baseline"

NoSurvivalFactor(a) ==
    /\ a.last_review_date.k # "date"
    /\ IsNone(calculate_review_decay_rate(a.review_count_3m, a.review_count_6_12m))
    /\ IsNone(a.job_postings_6m)
    /\ IsNone(a.facade_visible) /\ IsNone(a.signage_visible) /\ IsNone(a.lighting_visible)

\* C5: with no survival factor present score_survival does not fail and returns
\* is_active_prob = 0.5, confidence "low", no signals_used and an
\* "insufficient data" note.
C5_NeutralFallback ==
    \A r \in SurvResults :
        NoSurvivalFactor(r.args) =>
            /\ r.out.raised = "no"
            /\ r.out.is_active_prob = 500
            /\ r.out.confidence_level = "low"
            /\ r.out.signals_used = << >>
            /\ \E n \in Range(r.out.risk_factors) \cup Range(r.out.protective_factors) :
                   n.text = "Insufficient data - neutral assessment"

\* C5 witness: a call whose date does not parse and whose older review window
\* is below the minimum sample, all other fields undefined
C5_Witness ==
    \E r \in SurvResults :
        /\ r.args.last_review_date = BadStr /\ r.args.review_count_6_12m = Num(1)
        /\ NoSurvivalFactor(r.args)
        /\ r.out.signals_used = << >>

\* C6: a missing input (None, or NaN out of a DataFrame) means "no opinion":
\* the signal that needs it is not in signals_used, and a record whose signal
\* fields are all missing gets the fallback result.
C6_MissingInputOmitted ==
    /\ \A r \in EmpResults :
           LET a == r.args
               used == Range(r.out.signals_used)
           IN  /\ IsNa(a.linkedin_headcount) => "linkedin" \notin used
               /\ (IsNa(a.review_count_3m) \/ IsNa(a.review_count_6_12m))
                      => "review_velocity" \notin used
               /\ IsNa(a.building_area_sqm) => "building_area" \notin used
               /\ IsNa(a.job_postings_6m) => "job_postings" \notin used
               /\ (\A x \in EmpCells(a) : IsNa(x))
                      => r.out.signals_used = << >> /\ r.out.primary_signal = "baseline"
    /\ \A r \in SurvResults :
           LET a == r.args
               used == Range(r.out.signals_used)
           IN  /\ IsNa(a.last_review_date) => "review_recency" \notin used
               /\ (IsNa(a.review_count_3m) \/ IsNa(a.review_count_6_12m))
                      => "review_decay" \notin used
               /\ IsNa(a.job_postings_6m) => "job_postings" \notin used
               /\ (IsNa(a.facade_visible) /\ IsNa(a.signage_visible)
                      /\ IsNa(a.lighting_visible)) => "street_view" \notin used
               /\ (\A x \in SurvCells(a) : IsNa(x))
                      => r.out.signals_used = << >> /\ r.out.is_active_prob = 500

\* a negative count, or a date that does not parse, read as absent
Absent(x) == IF x = BadStr \/ Lt(x, 0) THEN None ELSE x
EmpWellFormed(a) ==
    [a EXCEPT !.review_count_3m = Absent(@), !.review_count_6_12m = Absent(@),
              !.job_postings_6m = Absent(@), !.job_postings_peak = Absent(@)]
SurvWellFormed(a) ==
    [a EXCEPT !.last_review_date = Absent(@),
              !.review_count_3m = Absent(@), !.review_count_6_12m = Absent(@),
              !.job_postings_6m = Absent(@), !.job_postings_peak = Absent(@)]

\* C7: a malformed value (unparseable date, negative review or posting count)
\* is handled exactly like the field being missing: no exception, and the
\* output is the one returned for the bundle without that field.
C7_MalformedAsMissing ==
    /\ \A r \in EmpResults :
           r.out = estimate(naics_baselines, EmpWellFormed(r.args))
    /\ \A r \in SurvResults :
           \E d \in Days : r.out = score_survival(d, SurvWellFormed(r.args))

\* C8: estimate() with a NAICS code that has no baseline entry raises a
\* configuration error instead of returning an estimate.
C8_UnknownCategoryRejected ==
    \A r \in EmpResults : ~KnownCategory(r.args) => r.out.raised # "no"

Repeated ==
    /\ last.fn \in {"estimate", "score_survival"}
    /\ prev # NoCall /\ prev.fn = last.fn /\ prev.args = last.args

Rank(level) == CASE level = "low" -> 0 [] level = "medium" -> 1 [] level = "high" -> 2

\* last is prev's bundle with one more contributing signal, prev had exactly one
SecondSignalAdded ==
    /\ last.fn \in {"estimate", "score_survival"}
    /\ prev # NoCall /\ prev.fn = last.fn /\ prev.args # last.args
    /\ Len(prev.out.signals_used) = 1
    /\ Len(last.out.signals_used) = 2
    /\ Range(prev.out.signals_used) \subseteq Range(last.out.signals_used)

\* C10: adding one more valid signal to a bundle in which exactly one signal
\* contributes never lowers confidence_level (low < medium < high), in
\* estimate() and in score_survival().
C10_ConfidenceOrdering ==
    SecondSignalAdded =>
        Rank(last.out.confidence_level) >= Rank(prev.out.confidence_level)

\* C10 witness: a second signal was added to a bundle that had the direct
\* headcount alone
C10_Witness ==
    /\ SecondSignalAdded /\ last.fn = "estimate"
    /\ prev.out.signals_used = <<"linkedin">>

\* the recent window of a direct estimate_from_review_velocity call was raised:
\* same known category, same older window, both windows at the minimum sample
VelocityRaised ==
    /\ last.fn = "estimate_from_review_velocity" /\ prev # NoCall
    /\ KnownCategory(last.args)
    /\ prev.args.naics_code = last.args.naics_code
    /\ prev.args.review_count_6_12m = last.args.review_count_6_12m
    /\ Ge(last.args.review_count_6_12m, 3) /\ Ge(prev.args.review_count_3m, 3)
    /\ last.args.review_count_3m.v > prev.args.review_count_3m.v

\* C11: with both windows at or above the minimum sample of 3, any increase of
\* the recent review rate strictly increases the point of
\* estimate_from_review_velocity unless the point had reached max_employees.
C11_VelocityStrictlyMonotone ==
    (VelocityRaised
        /\ prev.out.point.v < naics_baselines[last.args.naics_code].max_employees)
        => last.out.point.v > prev.out.point.v

\* C11 as amended: the point never decreases, and it strictly increases when
\* the point had not reached max_employees and the raised rate puts the point
\* above min_employees (below that the point is clamped to min_employees).
C11_VelocityMonotoneBetweenClamps ==
    VelocityRaised =>
        LET baseline == naics_baselines[last.args.naics_code]
        IN  /\ last.out.point.v >= prev.out.point.v
            /\ (prev.out.point.v < baseline.max_employees
                    /\ last.out.point.v > baseline.min_employees)
                   => last.out.point.v > prev.out.point.v

\* C11 witness: the recent window was raised between two unclamped points
C11_Witness ==
    /\ VelocityRaised
    /\ prev.out.point.v > naics_baselines[last.args.naics_code].min_employees
    /\ last.out.point.v < naics_baselines[last.args.naics_code].max_employees
    /\ last.out.point.v > prev.out.point.v

\* the bundle carries a positive direct headcount and nothing else
HeadcountOnly(a) ==
    /\ Gt(a.linkedin_headcount, 0)
    /\ EmpCells(a) \ {a.linkedin_headcount} = {None}

\* C12: for a bundle whose only signal is a direct headcount h > 0, estimate()
\* returns the point h, the interval [0.90 h, 1.10 h] (as printed to one
\* decimal), confidence "high" and the direct-count signal as dominant signal.
C12_HeadcountScenario ==
    \A r \in EmpResults :
        HeadcountOnly(r.args) =>
            LET h == r.args.linkedin_headcount.v
            IN  /\ r.out.point_estimate = Num(h)
                /\ r.out.ci_lower = Num(Round1(Scale(h, 900)))
                /\ r.out.ci_upper = Num(Round1(Scale(h, 1100)))
                /\ r.out.confidence_level = "high"
                /\ r.out.primary_signal = "linkedin"

\* the score of the recency tier a number of days falls in
RecencyTier(days) ==
    IF days <= 30 THEN 1000 ELSE IF days <= 90 THEN 750
    ELSE IF days <= 180 THEN 400 ELSE 100

ReviewScenario(a) ==
    /\ KnownCategory(a)
    /\ naics_baselines[a.naics_code].avg_employees = 12000
    /\ naics_baselines[a.naics_code].min_employees = 3000
    /\ naics_baselines[a.naics_code].max_employees = 50000
    /\ naics_baselines[a.naics_code].avg_reviews_per_month = 20000
    /\ a.review_count_3m = Num(40) /\ a.review_count_6_12m = Num(20)
    /\ EmpCells(a) \ {Num(40), Num(20)} = {None}

\* C14: in the scenario estimate() yields a review-velocity point strictly
\* above 12 and strictly below 50, with confidence "medium".
C14_ReviewScenario ==
    \A r \in EmpResults :
        ReviewScenario(r.args) =>
            /\ r.out.signals_used = <<"review_velocity">>
            /\ Gt(r.out.point_estimate, 12000) /\ Lt(r.out.point_estimate, 50000)
            /\ r.out.confidence_level = "medium"

\* the rule table of the employee path, read off the set of contributing signals
ConfidenceOfSignals(used) ==
    IF "linkedin" \in used THEN "high"
    ELSE IF Cardinality(used) >= 3 THEN "high"
    ELSE IF Cardinality(used) \in {1, 2} THEN "medium"
    ELSE "low"

\* C15: the confidence of estimate() is a function of the set of contributing
\* signals: "high" with the direct count, else "high" with three or more
\* signals, else "medium" with one or two, and "low" exactly when there is none.
C15_EmployeeConfidenceTable ==
    \A r \in EmpResults :
        /\ r.out.confidence_level = ConfidenceOfSignals(Range(r.out.signals_used))
        /\ (r.out.confidence_level = "low") <=> (r.out.signals_used = << >>)

\* C15 witness: two signals contributed, neither the direct count nor the reviews
C15_Witness ==
    \E r \in EmpResults :
        /\ r.out.signals_used = <<"building_area", "job_postings">>
        /\ r.out.confidence_level = "medium"

\* C16: the confidence of score_survival() depends only on the number of
\* factors: three or more "high", two "medium", one "medium", none "low".
C16_SurvivalConfidenceByCount ==
    \A r \in SurvResults :
        LET n == Len(r.out.signals_used)
        IN  r.out.confidence_level =
                (IF n >= 3 THEN "high" ELSE IF n >= 1 THEN "medium" ELSE "low")

\* C16 as amended: three or more factors "high" whatever their scores, two
\* "medium", one or none "low".
C16_SurvivalConfidenceLowBelowTwo ==
    \A r \in SurvResults :
        LET n == Len(r.out.signals_used)
        IN  r.out.confidence_level =
                (IF n >= 3 THEN "high" ELSE IF n = 2 THEN "medium" ELSE "low")

\* C16 witness: three factors that disagree (1.0, 0.2 and 0.2; variance 0.14)
C16_Witness ==
    \E r \in SurvResults :
        /\ Len(r.out.signals_used) = 3
        /\ Len(r.out.risk_factors) = 2 /\ Len(r.out.protective_factors) = 1
        /\ r.out.is_active_prob < 600
        /\ r.out.confidence_level = "high"

\* the batch runs a state records
BatchCalls == { c \in {prev, last} : c.fn \in BatchFns }

\* the same record in two places (of one batch run or of two)
SameRecord(c1, i, c2, j) ==
    /\ c1.fn = c2.fn
    /\ i \in 1..Len(Rows(c1)) /\ j \in 1..Len(Rows(c2))
    /\ Rows(c1)[i] = Rows(c2)[j]

LoopResults ==
    IF last.fn = "employee_estimation_loop"
    THEN { [service |-> last.args.service, signals |-> last.args.data[i],
            out |-> last.out[i]] : i \in 1..Len(last.args.data) }
    ELSE {}

\* undefined, zero or negative
NonPositive(x) == IsNone(x) \/ (x.k = "num" /\ x.v <= 0)

\* C18: a per-signal employee estimator whose required input is undefined or
\* non-positive has no opinion: its signal is not among the contributing
\* ones (direct headcount, recent postings, area, review counts and review
\* rate, popularity index, registry partner count).
C18_NoOpinionOnNonPositive ==
    /\ \A r \in EmpResults :
           LET a == r.args
               used == Range(r.out.signals_used)
           IN  /\ NonPositive(a.linkedin_headcount) => "linkedin" \notin used
               /\ NonPositive(a.review_count_3m) => "review_velocity" \notin used
               /\ NonPositive(a.building_area_sqm) => "building_area" \notin used
               /\ NonPositive(a.job_postings_6m) => "job_postings" \notin used
    /\ \A r \in LoopResults :
           LET a == r.signals
               used == Range(r.out.employee_estimate_methods)
           IN  /\ NonPositive(a.linkedin_employee_count) => "linkedin" \notin used
               /\ NonPositive(a.job_postings_12m) => "job_postings" \notin used
               /\ NonPositive(a.building_area_m2) => "building_area" \notin used
               /\ NonPositive(a.reviews_per_month) => "review_density" \notin used
               /\ NonPositive(a.popular_times_peak) => "popular_times" \notin used
               /\ NonPositive(a.sos_partner_count) => "sos_partners" \notin used

\* the fixed priority weights, in hundredths
FixedWeight(name) ==
    CASE name = "linkedin" -> 50 [] name = "review_velocity" -> 30
      [] name = "building_area" -> 15 [] name = "job_postings" -> 5
      [] name = "review_recency" -> 35 [] name = "review_decay" -> 30
      [] name = "street_view" -> 15
\* job_postings weighs 0.05 among the employee signals, 0.20 among the factors
FactorWeight(name) == IF name = "job_postings" THEN 20 ELSE FixedWeight(name)

\* the entries of an estimates dict that contribute
Contributing(estimates) == { e \in Range(estimates) : ~IsNone(e.point) }

\* the factors of a scored bundle, from its arguments and derived features
FactorsOf(r) ==
    recency_factor(r.out.days_since_last_review)
    \o decay_factor(r.out.review_decay_rate)
    \o hiring_factor(r.args.job_postings_6m, r.args.job_postings_peak)
    \o visual_factor(evaluate_street_view(r.args.facade_visible, r.args.signage_visible,
                                          r.args.lighting_visible))

\* C19: the weight applied to a contributing signal is its fixed weight over
\* the sum of the fixed weights of the contributing signals, so the applied
\* weights sum to 1 and the combined value is sum(weight * value) / sum(weight)
\* over the contributing signals, in ensemble_estimate and in score_survival.
C19_WeightsRenormalised ==
    /\ (last.fn = "ensemble_estimate" /\ Contributing(last.args) # {}) =>
           LET valid == SelectSeq(last.args, LAMBDA e : ~IsNone(e.point))
               applied == available_weights(valid)
               total == SeqSum([i \in 1..Len(valid) |-> FixedWeight(valid[i].name)])
               weighted == SeqSum([i \in 1..Len(valid) |->
                                      FixedWeight(valid[i].name) * valid[i].point.v])
           IN  /\ \A i \in 1..Len(valid) :
                      /\ applied[i].num = FixedWeight(valid[i].name)
                      /\ applied[i].den = total
               /\ SeqSum([i \in 1..Len(valid) |-> applied[i].num]) = applied[1].den
               /\ last.out.point = Num(RDiv(weighted, total))
    /\ \A r \in SurvResults :
           (r.out.signals_used # << >>) =>
               LET factors == FactorsOf(r)
                   applied == normalized_weights(factors)
                   total == SeqSum([i \in 1..Len(factors) |->
                                       FactorWeight(factors[i].name)])
                   weighted == SeqSum([i \in 1..Len(factors) |->
                                          FactorWeight(factors[i].name) * factors[i].score])
               IN  /\ [i \in 1..Len(factors) |-> factors[i].name] = r.out.signals_used
                   /\ \A i \in 1..Len(factors) :
                          /\ applied[i].num = FactorWeight(factors[i].name)
                          /\ applied[i].den = total
                   /\ SeqSum([i \in 1..Len(applied) |-> applied[i].num]) = applied[1].den
                   /\ r.out.is_active_prob = RDiv(weighted, total)

\* C19 witness: ensemble_estimate combined two signals (direct count and area)
\* while the other two had no opinion
C19_Witness ==
    /\ last.fn = "ensemble_estimate"
    /\ { e.name : e \in Contributing(last.args) } = {"linkedin", "building_area"}
    /\ last.out.point.k = "num"

\* last is a direct ensemble_estimate call on prev's dict with one more
\* contributing signal
EstimateAdded ==
    /\ last.fn = "ensemble_estimate" /\ prev # NoCall /\ prev.fn = last.fn
    /\ Contributing(prev.args) # {}
    /\ Contributing(prev.args) \subseteq Contributing(last.args)
    /\ Cardinality(Contributing(last.args)) = Cardinality(Contributing(prev.args)) + 1

\* C20: the interval of ensemble_estimate is [min of the contributing lower
\* bounds, max of the contributing upper bounds]; it contains the interval of
\* every contributing signal, and one more contributing signal never raises
\* the lower bound nor lowers the upper bound.
C20_IntervalIsUnion ==
    /\ (last.fn = "ensemble_estimate" /\ Contributing(last.args) # {}) =>
           /\ \A e \in Contributing(last.args) :
                  last.out.lo.v <= e.lo /\ e.hi <= last.out.hi.v
           /\ \E e \in Contributing(last.args) : last.out.lo.v = e.lo
           /\ \E e \in Contributing(last.args) : last.out.hi.v = e.hi
    /\ EstimateAdded =>
           last.out.lo.v <= prev.out.lo.v /\ last.out.hi.v >= prev.out.hi.v

\* C20 witness: an area estimate was added to a direct count and widened the
\* interval on both sides
C20_Witness ==
    /\ EstimateAdded
    /\ last.out.lo.v < prev.out.lo.v /\ last.out.hi.v > prev.out.hi.v

\* the place of a signal in the fixed priority order
Priority(name) ==
    CASE name = "linkedin" -> 1 [] name = "review_velocity" -> 2
      [] name = "building_area" -> 3 [] name = "job_postings" -> 4

\* name is the signal of largest renormalised weight among the contributing
\* names, the first of them in the priority order on a tie
LargestWeight(name, names) ==
    LET valid == [i \in 1..Len(names) |-> [name |-> names[i]]]
        applied == available_weights(valid)
        i == CHOOSE i \in 1..Len(names) : names[i] = name
    IN  /\ name \in Range(names)
        /\ \A j \in 1..Len(names) :
               /\ applied[j].num * applied[i].den <= applied[i].num * applied[j].den
               /\ applied[j].num * applied[i].den = applied[i].num * applied[j].den
                      => Priority(name) <= Priority(names[j])

\* C21: for every non-empty set of contributing signals the dominant signal of
\* ensemble_estimate is the contributing signal with the largest renormalised
\* weight (ties by the order direct count, review velocity, area density,
\* hiring activity); it is the direct count whenever that signal contributes.
C21_DominantLargestWeight ==
    /\ (last.fn = "ensemble_estimate" /\ Contributing(last.args) # {}) =>
           LET valid == SelectSeq(last.args, LAMBDA e : ~IsNone(e.point))
               names == [i \in 1..Len(valid) |-> valid[i].name]
           IN  /\ LargestWeight(last.out.dominant, names)
               /\ "linkedin" \in Range(names) => last.out.dominant = "linkedin"
    /\ \A r \in EmpResults :
           (r.out.signals_used # << >>) =>
               /\ LargestWeight(r.out.primary_signal, r.out.signals_used)
               /\ "linkedin" \in Range(r.out.signals_used)
                      => r.out.primary_signal = "linkedin"

\* C21 witness: ensemble_estimate was called on a dict filled in the opposite
\* order, in which the hiring, area and review signals contribute
C21_Witness ==
    /\ last.fn = "ensemble_estimate"
    /\ LET valid == SelectSeq(last.args, LAMBDA e : ~IsNone(e.point))
       IN  /\ [i \in 1..Len(valid) |-> valid[i].name]
                  = <<"job_postings", "building_area", "review_velocity">>
           /\ last.out.dominant = "review_velocity"
\* lower and upper lie inside the range of a category, in order
WithinRange(baseline, lower, upper) ==
    /\ baseline.min_employees <= lower /\ lower <= upper
    /\ upper <= baseline.max_employees

\* C22: every per-signal estimate of the employee path that is an opinion has
\* min_employees <= lower <= upper <= max_employees (direct count, review
\* velocity, area density and hiring activity alike), and so have ci_lower and
\* ci_upper of the combined estimate.
C22_BoundsWithinCategoryRange ==
    /\ (last.fn = "ensemble_estimate") =>
           \A e \in Contributing(last.args) :
               WithinRange(naics_baselines["722513"], e.lo, e.hi)
    /\ \A r \in EmpResults :
           (/\ KnownCategory(r.args) /\ NaN \notin EmpCells(r.args)
            /\ r.out.signals_used # << >>) =>
               /\ r.out.ci_lower.k = "num" /\ r.out.ci_upper.k = "num"
               /\ WithinRange(naics_baselines[r.args.naics_code],
                              r.out.ci_lower.v, r.out.ci_upper.v)

\* the multiplier of the three tiers, both ends of the middle tier included
TierMultiplier(recent_postings, historical_peak_postings) ==
    LET peak == Max(1, historical_peak_postings)
    IN  IF 10 * recent_postings > 7 * peak THEN 1200
        ELSE IF 10 * recent_postings >= 2 * peak THEN 1000
        ELSE 900

\* C23: estimate_from_job_postings maps recent / max(1, peak) to a multiplier
\* of avg_employees: above 0.7 it is 1.2, from 0.2 to 0.7 (both ends included)
\* 1.0, below 0.2 it is 0.9; the product is clamped to the category range.
C23_HiringTiers ==
    \A r \in EmpResults :
        (/\ KnownCategory(r.args)
         /\ r.out.signals_used = <<"job_postings">>
         /\ r.args.job_postings_6m.k = "num" /\ r.args.job_postings_peak.k = "num") =>
            LET baseline == naics_baselines[r.args.naics_code]
                multiplier == TierMultiplier(r.args.job_postings_6m.v,
                                             r.args.job_postings_peak.v)
            IN  r.out.point_estimate =
                    Num(Round1(Clip(Scale(baseline.avg_employees, multiplier),
                                    baseline.min_employees, baseline.max_employees)))

\* a count that was measured: a number, zero included
Supplied(x) == x.k = "num"

\* C24: review_decay_rate is defined exactly when a recent and an older count
\* are both supplied and the older one is at least 2; a recent count of 0 is a
\* measured value: with an older count of at least 2 the rate is 0, the decay
\* factor is in signals_used and the output differs from the output for an
\* unmeasured recent count.
C24_ZeroIsMeasured ==
    \A r \in SurvResults :
        LET recent == r.args.review_count_3m
            older == r.args.review_count_6_12m
        IN  (NaN \notin {recent, older}) =>
                /\ ~IsNone(r.out.review_decay_rate)
                       <=> (Supplied(recent) /\ Supplied(older) /\ older.v >= 2)
                /\ (recent = Num(0) /\ Supplied(older) /\ older.v >= 2) =>
                       /\ r.out.review_decay_rate = Num(0)
                       /\ "review_decay" \in Range(r.out.signals_used)
                       /\ \A d \in Days :
                              r.out # score_survival(d, [r.args EXCEPT
                                                            !.review_count_3m = None])

\* the posting cells of a scored bundle hold numbers or nothing
PostingsClean(a) == NaN \notin {a.job_postings_6m, a.job_postings_peak}

\* C25: the hiring factor of score_survival is omitted only when neither a
\* recent posting count nor a historical peak is supplied; when present its
\* score is 0.85, 0.65, 0.35 or 0.5, and 0.5 only when the historical peak is
\* undefined or zero.
C25_HiringFactorOmittedOnlyWithoutData ==
    \A r \in SurvResults :
        PostingsClean(r.args) =>
            /\ "job_postings" \notin Range(r.out.signals_used)
                   => (IsNone(r.args.job_postings_6m) /\ IsNone(r.args.job_postings_peak))
            /\ (r.out.signals_used = <<"job_postings">>) =>
                   /\ r.out.is_active_prob \in {850, 650, 350, 500}
                   /\ (r.out.is_active_prob = 500) =>
                          (IsNone(r.args.job_postings_peak)
                              \/ r.args.job_postings_peak = Num(0))

\* C25 as amended: the hiring factor is omitted exactly when the recent
\* posting count is undefined, whether or not a historical peak is supplied;
\* when present its score is 0.85, 0.65, 0.35 or 0.5, and 0.5 only when the
\* historical peak is undefined or not positive.
C25_HiringFactorNeedsRecentCount ==
    \A r \in SurvResults :
        PostingsClean(r.args) =>
            /\ "job_postings" \notin Range(r.out.signals_used)
                   <=> IsNone(r.args.job_postings_6m)
            /\ (r.out.signals_used = <<"job_postings">>) =>
                   /\ r.out.is_active_prob \in {850, 650, 350, 500}
                   /\ (r.out.is_active_prob = 500) =>
                          (IsNone(r.args.job_postings_peak)
                              \/ r.args.job_postings_peak.v <= 0)

\* C25 witness: a bundle with a recent posting count and no historical peak
\* was scored, the hiring factor alone
C25_Witness ==
    \E r \in SurvResults :
        /\ r.args.job_postings_6m = Num(5) /\ IsNone(r.args.job_postings_peak)
        /\ r.out.signals_used = <<"job_postings">>
        /\ r.out.is_active_prob = 500

\* the three cues of a scored bundle
Cues(a) == <<a.facade_visible, a.signage_visible, a.lighting_visible>>
\* how many cues are positive
Positives(a) == Cardinality({ i \in 1..3 : Cues(a)[i] = Bool(TRUE) })

HasNote(notes, text) == \E n \in Range(notes) : n.text = text

\* C26: the visual factor is omitted exactly when facade, signage and lighting
\* are all undefined; otherwise its score is 0.8 with a protective annotation
\* when at least two cues are positive, and 0.2 with a risk annotation in
\* every other case, whichever of the cues are defined.
C26_VisualMajority ==
    \A r \in SurvResults :
        (NaN \notin Range(Cues(r.args))) =>
            LET present == "street_view" \in Range(r.out.signals_used)
                alone == r.out.signals_used = <<"street_view">>
                visible == "Visible operational indicators"
                hidden == "No visible operational indicators"
            IN  /\ ~present <=> Range(Cues(r.args)) = {None}
                /\ (present /\ Positives(r.args) >= 2) =>
                       /\ HasNote(r.out.protective_factors, visible)
                       /\ ~HasNote(r.out.risk_factors, hidden)
                       /\ alone => r.out.is_active_prob = 800
                /\ (present /\ Positives(r.args) < 2) =>
                       /\ HasNote(r.out.risk_factors, hidden)
                       /\ ~HasNote(r.out.protective_factors, visible)
                       /\ alone => r.out.is_active_prob = 200

\* C26 witness: one cue was defined, and positive, and the visual factor stood
\* alone with score 0.2
C26_Witness ==
    \E r \in SurvResults :
        /\ Cues(r.args) = <<Bool(TRUE), None, None>>
        /\ r.out.signals_used = <<"street_view">>
        /\ r.out.is_active_prob = 200

\* the factor at place i has the greatest score * weight (weights given as
\* fractions), and is the first such factor
GreatestInfluence(factors, weights, i) ==
    /\ \A j \in 1..Len(factors) :
           factors[j].score * weights[j].num * weights[i].den
               <= factors[i].score * weights[i].num * weights[j].den
    /\ \A j \in 1..(i - 1) :
           factors[j].score * weights[j].num * weights[i].den
               < factors[i].score * weights[i].num * weights[j].den

\* C27: with at least one factor present, primary_indicator is a member of
\* signals_used and is the factor with the greatest score * renormalised
\* weight, the first in the order recency, decay, hiring, visual on a tie; the
\* fixed weights select the same factor.
C27_PrimaryIndicator ==
    \A r \in SurvResults :
        (r.out.signals_used # << >>) =>
            LET factors == FactorsOf(r)
                fixed == [j \in 1..Len(factors) |->
                             [num |-> FactorWeight(factors[j].name), den |-> 100]]
            IN  /\ r.out.primary_indicator \in Range(r.out.signals_used)
                /\ \E i \in 1..Len(factors) :
                       /\ factors[i].name = r.out.primary_indicator
                       /\ GreatestInfluence(factors, normalized_weights(factors), i)
                       /\ GreatestInfluence(factors, fixed, i)

\* C27 witness: four factors were present and the decay factor, not the
\* heavier recency factor, had the greatest influence
C27_Witness ==
    \E r \in SurvResults :
        /\ Len(r.out.signals_used) = 4
        /\ r.out.signals_used[1] = "review_recency"
        /\ r.out.primary_indicator = "review_decay"

\* the hiring factor is present in its neutral tier: a recent count without
\* activity and without a positive historical peak
NeutralHiring(a) ==
    /\ ~IsNone(a.job_postings_6m)
    /\ ~has_activity(a.job_postings_6m, a.job_postings_peak)
    /\ ~Gt(a.job_postings_peak, 0)

\* C28: every factor present in score_survival appends exactly one string to
\* exactly one of risk_factors and protective_factors, whatever its tier: with
\* at least one factor present,
\* len(risk_factors) + len(protective_factors) = len(signals_used).
C28_OneAnnotationPerFactor ==
    \A r \in SurvResults :
        (r.out.signals_used # << >>) =>
            Len(r.out.risk_factors) + Len(r.out.protective_factors)
                = Len(r.out.signals_used)

\* C28 as amended: every factor present appends exactly one string, except the
\* hiring factor in its neutral tier (score 0.5), which appends none.
C28_OneAnnotationPerFactorButNeutral ==
    \A r \in SurvResults :
        (r.out.signals_used # << >>) =>
            Len(r.out.risk_factors) + Len(r.out.protective_factors)
                = Len(r.out.signals_used) - (IF NeutralHiring(r.args) THEN 1 ELSE 0)

\* C28 witness: a bundle with a recent review and a neutral hiring factor was
\* scored: two factors, one annotation
C28_Witness ==
    \E r \in SurvResults :
        /\ r.out.signals_used = <<"review_recency", "job_postings">>
        /\ NeutralHiring(r.args)
        /\ Len(r.out.protective_factors) = 1 /\ r.out.risk_factors = << >>

\* two scored bundles that differ at most in the date of the latest review
SameButReviewDate(a1, a2) ==
    [a1 EXCEPT !.last_review_date = None] = [a2 EXCEPT !.last_review_date = None]

\* C29: every other input of score_survival being the same, is_active_prob is
\* non-increasing in days_since_last_review: an older latest review never
\* gets a higher active probability.
C29_OlderReviewNeverHigher ==
    \A r1 \in SurvResults, r2 \in SurvResults :
        (/\ SameButReviewDate(r1.args, r2.args)
         /\ r1.out.days_since_last_review.k = "num"
         /\ r2.out.days_since_last_review.k = "num"
         /\ r1.out.days_since_last_review.v <= r2.out.days_since_last_review.v)
            => r1.out.is_active_prob >= r2.out.is_active_prob

\* C29 witness: a bundle with four factors was scored twice, the review being
\* in another recency tier the second time, and the probability went down
C29_Witness ==
    /\ Repeated /\ last.fn = "score_survival"
    /\ Len(last.out.signals_used) = 4
    /\ prev.out.days_since_last_review.v < last.out.days_since_last_review.v
    /\ last.out.is_active_prob < prev.out.is_active_prob

\* the estimators combine_estimates asks for a record and that return a value
Returned(service, record, avg) ==
    LET asked ==
            (IF service THEN << >>
             ELSE Method("linkedin",
                         estimate_from_linkedin_count(record.linkedin_employee_count))
                  \o Method("job_postings",
                            estimate_from_job_postings_12m(record.job_postings_12m))
                  \o Method("building_area",
                            estimate_from_building_area_m2(record.building_area_m2))
                  \o Method("sos_partners",
                            estimate_from_sos_partners(record.sos_partner_count)))
            \o Method("review_density",
                      estimate_from_review_density(record.reviews_per_month, avg))
            \o Method("popular_times",
                      estimate_from_popular_times(record.popular_times_peak))
    IN  { m.name : m \in { x \in Range(asked) : ~IsNone(x.value) } }

\* a whole number of employees
IsInteger(x) == x.k = "num" /\ x.v % 1000 = 0

====
